---- MODULE Spec2Model ----
(***************************************************************************)
(* pdm-sbom: component resolution (project/builder.py), graph storage      *)
(* (dag/graph.py) and graph construction with usage classification         *)
(* (dag/builder.py), as state machines over explicit call stacks.          *)
(***************************************************************************)
EXTENDS Integers, Sequences, FiniteSets, TLC

\* ------------------------------------------------------------------ bounds
MaxDependencies == 4    \* DependencyInfo objects of a directly given Project
MaxAbsentDependencies == 3  \* the same, when a reference may be absent
MaxSelfDependencies == 2    \* the same, when the Project may be a target itself
MaxLockDeps == 2        \* declared dependencies of a lock file, all records
RecursionLimit == 6     \* frames the interpreter allows before RecursionError
MaxApiListLen == 3      \* length of Graph.__nodes under direct add_node calls
MaxPipelineEntries == 2 \* lock dependencies and manifest entries of a run, in all
MaxManifestEntries == 2 \* manifest entries over the lock records A -> B -> C
MaxSameNameDependencies == 2    \* DependencyInfo objects over components of one name
MaxSelfListLen == 3     \* declared dependencies of the record that may list itself
MaxCallDeps == 2        \* declared dependencies of a lock file given to one of several calls

\* --------------------------------------------------------------- constants
UNUSED == 0
DEVELOPMENT == 1
OPTIONAL == 2
REQUIRED == 4
ROOT == 8
UsageKind == {UNUSED, DEVELOPMENT, OPTIONAL, REQUIRED, ROOT}

DEFAULT_GROUP_NAME == "default"
DEVELOPMENT_GROUP_NAME == "development"
EXTRA_GROUP_NAME == "extra"     \* one optional group of the manifest
NoGroup == "None"               \* group: Optional[str] = None

UNDEFINED_VERSION == "0.0.0"

\* Object references: 0 is the ProjectInfo, 1.. index the component heap,
\* NoComponent is Python's None.
ProjectRef == 0
NoComponent == 0 - 1

\* the package names of the model
NameSeq == <<"A", "B", "C">>

Names == {NameSeq[i] : i \in 1..Len(NameSeq)}

NumComponents == Len(NameSeq)

VARIABLES
    heap,       \* ComponentInfo objects, by reference
    project,    \* the ProjectInfo (reference ProjectRef)
    nodeObj,    \* Node objects, by reference: kind, component, group, paint
    gnodes,     \* Graph.__nodes: list of node references
    gedges,     \* Graph.__edges: node reference -> set of node references
    c2n,        \* component_to_nodes: insertion ordered <<component, node>>
    stack,      \* call stack of the running operation
    pc,         \* position of the top-level operation
    error,      \* exception that ended the operation, or "none"
    last,       \* what the last step did (observation only)
    packages,   \* LockFile.packages: list of ReferencedComponent
    memo,       \* ComponentBuilder._components: name -> ComponentInfo
    lookups,    \* calls of MetaDataResolver.resolve, per package name
    warnings,   \* logger.warning calls, in order
    message,    \* names formatted into the message of the raised error
    answers,    \* what the installed distributions answered, per package name
    manifest,   \* ProjectDefinition.dependencies: group -> requirement names
    first       \* the graph an earlier run on the same input returned

inputVars == <<manifest, first>>

resolverVars == <<packages, memo, lookups, warnings, message, answers, inputVars>>

vars == <<heap, project, nodeObj, gnodes, gedges, c2n, stack, pc, error, last,
          resolverVars>>

\* ------------------------------------------------------------- data model
Dep(req, comp) == [requirement |-> req, component |-> comp]

Range(f) == {f[i] : i \in DOMAIN f}

Obj(c) == IF c = ProjectRef THEN project ELSE heap[c]

IsProject(c) == c = ProjectRef

RECURSIVE FlattenGroups(_)
FlattenGroups(groups) ==
    IF groups = <<>> THEN <<>>
    ELSE [i \in 1..Len(Head(groups).items) |->
             <<Head(groups).group, Head(groups).items[i]>>]
         \o FlattenGroups(Tail(groups))

\* all_dependencies over groups whose iteration order changes from one run
\* of the program to the next
AllDependenciesUnordered(c) ==
    FlattenGroups(IF first.ran
                  THEN [i \in 1..Len(Obj(c).dependencies) |->
                           Obj(c).dependencies[Len(Obj(c).dependencies) + 1 - i]]
                  ELSE Obj(c).dependencies)

\* ComponentInfo.all_dependencies: (group, dependency) in dict order
AllDependencies(c) == FlattenGroups(Obj(c).dependencies)

GroupItems(groups, g) ==
    LET idx == {i \in 1..Len(groups) : groups[i].group = g}
    IN IF idx = {} THEN <<>> ELSE groups[CHOOSE i \in idx : TRUE].items

\* ProjectInfo.default_dependencies / development_dependencies
DefaultDependencies == GroupItems(project.dependencies, DEFAULT_GROUP_NAME)

\* development_dependencies reading the default group
DevelopmentDependenciesOfDefault == GroupItems(project.dependencies, DEFAULT_GROUP_NAME)

DevelopmentDependencies == GroupItems(project.dependencies, DEVELOPMENT_GROUP_NAME)

RECURSIVE OptionalOf(_)
OptionalOf(groups) ==
    IF groups = <<>> THEN <<>>
    ELSE (IF Head(groups).group \in {DEFAULT_GROUP_NAME, DEVELOPMENT_GROUP_NAME}
          THEN <<>> ELSE Head(groups).items) \o OptionalOf(Tail(groups))

\* ProjectInfo.optional_dependencies
OptionalDependencies == OptionalOf(project.dependencies)

\* dataclass(frozen=True) equality of ComponentInfo / ProjectInfo: identical
\* objects, or same class and all fields equal (dependencies compared deeply).
RECURSIVE CompEqD(_, _, _)
CompEqD(a, b, d) ==
    \/ a = b
    \/ /\ a # NoComponent /\ b # NoComponent
       /\ IsProject(a) = IsProject(b)
       /\ Obj(a).name = Obj(b).name
       /\ Obj(a).resolved_version = Obj(b).resolved_version
       /\ Obj(a).resolved = Obj(b).resolved
       /\ Obj(a).authors = Obj(b).authors
       /\ Obj(a).files = Obj(b).files
       /\ d > 0
       /\ LET da == AllDependencies(a)
              db == AllDependencies(b)
          IN /\ Len(da) = Len(db)
             /\ \A i \in 1..Len(da) :
                   /\ da[i][1] = db[i][1]
                   /\ da[i][2].requirement = db[i][2].requirement
                   /\ CompEqD(da[i][2].component, db[i][2].component, d - 1)

CompEq(a, b) == CompEqD(a, b, RecursionLimit)

\* the generated __hash__: the fields declared with hash=True
CompHash(c) == <<Obj(c).name, Obj(c).resolved>>

\* dict membership / lookup of component_to_nodes
MapHas(map, c) == \E i \in 1..Len(map) : CompEq(map[i][1], c)

MapGet(map, c) == map[CHOOSE i \in 1..Len(map) : CompEq(map[i][1], c)][2]

\* ------------------------------------------------------------ graph.py
\* ComponentNode.__init__
ComponentNode(c, group) ==
    [kind |-> "component", component |-> c, group |-> group, paint |-> UNUSED]

\* RootNode.__init__ ; RootNode.usage is the constant ROOT
RootNode(p) ==
    [kind |-> "root", component |-> p, group |-> NoGroup, paint |-> ROOT]

RootRef == 1

\* Node.usage (getter)
Usage(n) == nodeObj[n].paint

\* the setter without its comparison
UsageSetterUnguarded(node, usage) ==
    IF node.kind = "root" THEN node ELSE [node EXCEPT !.paint = usage]

\* the setter with its comparison turned around
UsageSetterReversed(node, usage) ==
    IF node.kind = "root" THEN node
    ELSE IF node.paint > usage THEN [node EXCEPT !.paint = usage]
    ELSE node

\* ComponentNode.usage / RootNode.usage (setter), applied to a node object
UsageSetter(node, usage) ==
    IF node.kind = "root" THEN node
    ELSE IF node.paint < usage THEN [node EXCEPT !.paint = usage]
    ELSE node

\* add_node that does not keep the node
AddNodeToNothing(nodes, n) == nodes

\* add_node inserting at the front of the list
AddNodeToFront(nodes, n) == <<n>> \o nodes

\* Graph.add_node
AddNodeTo(nodes, n) == Append(nodes, n)

InNodes(nodes, n) == \E i \in 1..Len(nodes) : nodes[i] = n

\* Graph.add_edge: the raised error, or "none"
AddEdgeError(nodes, from, to) ==
    IF ~InNodes(nodes, from) \/ ~InNodes(nodes, to) THEN "ValueError" ELSE "none"

\* add_edge creating the edge set of the source before it checks the target
AddEdgeToEager(nodes, edges, from, to) ==
    IF ~InNodes(nodes, from) THEN edges
    ELSE [n \in (DOMAIN edges) \cup {from} |->
             IF n = from
             THEN (IF from \in DOMAIN edges THEN edges[from] ELSE {})
                     \cup (IF InNodes(nodes, to) THEN {to} ELSE {})
             ELSE edges[n]]

\* add_edge assigning a new set instead of adding to the set
AddEdgeToReplacing(nodes, edges, from, to) ==
    IF AddEdgeError(nodes, from, to) # "none" THEN edges
    ELSE [n \in (DOMAIN edges) \cup {from} |-> IF n = from THEN {to} ELSE edges[n]]

\* Graph.add_edge: the edge mapping after the call
AddEdgeTo(nodes, edges, from, to) ==
    IF AddEdgeError(nodes, from, to) # "none" THEN edges
    ELSE [n \in (DOMAIN edges) \cup {from} |->
             IF n = from
             THEN (IF from \in DOMAIN edges THEN edges[from] ELSE {}) \cup {to}
             ELSE edges[n]]

\* ------------------------------------------------------ call stack
Frame(fn, c, color) == [fn |-> fn, component |-> c, idx |-> 1, color |-> color]

Top == stack[Len(stack)]

Pop(st) == SubSeq(st, 1, Len(st) - 1)

\* the caller resumes after the call it made for its current dependency
Resume(st) ==
    [i \in 1..Len(st) |-> IF i = Len(st) THEN [st[i] EXCEPT !.idx = @ + 1] ELSE st[i]]

Observe(op, target, node, kind) ==
    [op |-> op, target |-> target, node |-> node, kind |-> kind,
     name |-> "", by |-> ""]

\* an exception propagates out of the running operation
Raise(e) ==
    /\ pc' = "failed"
    /\ error' = e
    /\ stack' = <<>>

\* --------------------------------------------------- dag/builder.py
\* the walk without its check for an absent reference
SkipDependencyNever(dep) == FALSE

\* __build_graph_nodes, line 46: the absent reference is skipped
SkipDependency(dep) == dep.component = NoComponent

\* component_to_nodes[c] = n
MapPut(map, c, n) ==
    IF MapHas(map, c)
    THEN [i \in 1..Len(map) |-> IF CompEq(map[i][1], c) THEN <<map[i][1], n>> ELSE map[i]]
    ELSE Append(map, <<c, n>>)

\* the walk without its visited check: a node for every call
VisitComponentAlways(map, objs, nodes, c, group) ==
    [map |-> MapPut(map, c, Len(objs) + 1),
     objs |-> Append(objs, ComponentNode(c, group)),
     nodes |-> AddNodeTo(nodes, Len(objs) + 1)]

\* the walk giving a visited component's node the group of the latest visit
VisitComponentRelabelling(map, objs, nodes, c, group) ==
    IF ~MapHas(map, c)
    THEN [map |-> MapPut(map, c, Len(objs) + 1),
          objs |-> Append(objs, ComponentNode(c, group)),
          nodes |-> AddNodeTo(nodes, Len(objs) + 1)]
    ELSE [map |-> map,
          objs |-> [n \in 1..Len(objs) |->
                       IF n = MapGet(map, c) /\ objs[n].kind = "component"
                       THEN [objs[n] EXCEPT !.group = group] ELSE objs[n]],
          nodes |-> nodes]

\* __build_graph_nodes, lines 40-43: visited map, node objects and node list
\* after the call was entered for component c
VisitComponent(map, objs, nodes, c, group) ==
    IF ~MapHas(map, c)
    THEN [map |-> MapPut(map, c, Len(objs) + 1),
          objs |-> Append(objs, ComponentNode(c, group)),
          nodes |-> AddNodeTo(nodes, Len(objs) + 1)]
    ELSE [map |-> map, objs |-> objs, nodes |-> nodes]

\* GraphBuilder.build, lines 26-30: seed the visited map, enter the walk
Build ==
    /\ pc = "start"
    /\ LET v == VisitComponent(<< <<ProjectRef, RootRef>> >>, nodeObj, gnodes,
                               ProjectRef, NoGroup)
       IN /\ c2n' = v.map
          /\ nodeObj' = v.objs
          /\ gnodes' = v.nodes
    /\ stack' = <<Frame("build_graph_nodes", ProjectRef, UNUSED)>>
    /\ pc' = "nodes"
    /\ last' = Observe("build", ProjectRef, RootRef, UNUSED)
    /\ UNCHANGED <<resolverVars, heap, project, gedges, error>>

\* __build_graph_nodes, lines 45-51: the loop reaches a dependency with a
\* component and recurses into it; the callee runs lines 40-43
BuildGraphNodesRecurse ==
    /\ pc = "nodes"
    /\ Top.idx <= Len(AllDependencies(Top.component))
    /\ LET gd == AllDependencies(Top.component)[Top.idx]
           c == gd[2].component
       IN /\ ~SkipDependency(gd[2])
          /\ IF Len(stack) >= RecursionLimit
             THEN /\ Raise("RecursionError")
                  /\ last' = Observe("overflow", c, 0, UNUSED)
                  /\ UNCHANGED <<nodeObj, gnodes, c2n>>
             ELSE /\ LET v == VisitComponent(c2n, nodeObj, gnodes, c, gd[1])
                     IN /\ c2n' = v.map
                        /\ nodeObj' = v.objs
                        /\ gnodes' = v.nodes
                  /\ last' = Observe(IF MapHas(c2n, c) THEN "revisit" ELSE "visit",
                                     c, MapGet(c2n', c), UNUSED)
                  /\ IF c = NoComponent
                     THEN Raise("AttributeError")   \* None.all_dependencies()
                     ELSE /\ stack' = Append(stack, Frame("build_graph_nodes", c, UNUSED))
                          /\ UNCHANGED <<pc, error>>
    /\ UNCHANGED <<resolverVars, heap, project, gedges>>

\* __build_graph_nodes, lines 46-47: continue
BuildGraphNodesSkip ==
    /\ pc = "nodes"
    /\ Top.idx <= Len(AllDependencies(Top.component))
    /\ SkipDependency(AllDependencies(Top.component)[Top.idx][2])
    /\ stack' = Resume(stack)
    /\ last' = Observe("skip", NoComponent, 0, UNUSED)
    /\ UNCHANGED <<resolverVars, heap, project, nodeObj, gnodes, gedges, c2n, pc, error>>

\* __build_graph_nodes: the loop of the callee is exhausted, it returns, and
\* the caller adds the edge (lines 52-55); the outermost call returns to
\* build, which enters __colorize_graph (line 31)
BuildGraphNodesReturn ==
    /\ pc = "nodes"
    /\ Top.idx > Len(AllDependencies(Top.component))
    /\ IF Len(stack) = 1
       THEN /\ stack' = <<Frame("colorize_graph", ProjectRef, UNUSED)>>
            /\ pc' = "colorize"
            /\ last' = Observe("walked", ProjectRef, RootRef, UNUSED)
            /\ UNCHANGED <<gedges, error>>
       ELSE LET caller == stack[Len(stack) - 1]
                dep == AllDependencies(caller.component)[caller.idx][2]
                from == MapGet(c2n, caller.component)
                to == MapGet(c2n, dep.component)
            IN /\ gedges' = AddEdgeTo(gnodes, gedges, from, to)
               /\ last' = Observe("edge", dep.component, to, UNUSED)
               /\ IF AddEdgeError(gnodes, from, to) # "none"
                  THEN Raise(AddEdgeError(gnodes, from, to))
                  ELSE /\ stack' = Resume(Pop(stack))
                       /\ UNCHANGED <<pc, error>>
    /\ UNCHANGED <<resolverVars, heap, project, nodeObj, gnodes, c2n>>

\* the passes without the one over the optional groups
ColorizePassesNoOptional ==
    << <<DevelopmentDependencies, DEVELOPMENT>>,
       <<DefaultDependencies, REQUIRED>> >>

\* the passes with the default pass painting the root's kind
ColorizePassesRoot ==
    << <<DevelopmentDependencies, DEVELOPMENT>>,
       <<OptionalDependencies, OPTIONAL>>,
       <<DefaultDependencies, ROOT>> >>

\* __colorize_graph, lines 60-74: the passes in program order
ColorizePasses ==
    << <<DevelopmentDependencies, DEVELOPMENT>>,
       <<OptionalDependencies, OPTIONAL>>,
       <<DefaultDependencies, REQUIRED>> >>

RECURSIVE FlattenPasses(_)
FlattenPasses(passes) ==
    IF passes = <<>> THEN <<>>
    ELSE [i \in 1..Len(Head(passes)[1]) |-> <<Head(passes)[1][i], Head(passes)[2]>>]
         \o FlattenPasses(Tail(passes))

\* the (dependency, color) calls __colorize_graph makes, in order
ColorizeWork == FlattenPasses(ColorizePasses)

\* __paint_all, line 83
PaintGuard(dep) == dep.component # NoComponent /\ MapHas(c2n, dep.component)

\* __paint_all, line 84: the node objects after the assignment
PaintNode(c, color) ==
    [n \in 1..Len(nodeObj) |->
        IF n = MapGet(c2n, c) THEN UsageSetter(nodeObj[n], color) ELSE nodeObj[n]]

\* a call of __paint_all(dep, color) by the frame on top of the stack
CallPaintAll(dep, color) ==
    IF Len(stack) >= RecursionLimit
    THEN /\ Raise("RecursionError")
         /\ last' = Observe("overflow", dep.component, 0, color)
         /\ UNCHANGED nodeObj
    ELSE IF PaintGuard(dep)
    THEN /\ nodeObj' = PaintNode(dep.component, color)
         /\ stack' = Append(stack, Frame("paint_all", dep.component, color))
         /\ last' = Observe("paint", dep.component, MapGet(c2n, dep.component), color)
         /\ UNCHANGED <<pc, error>>
    ELSE /\ stack' = Resume(stack)
         /\ last' = Observe("paintskip", dep.component, 0, color)
         /\ UNCHANGED <<nodeObj, pc, error>>

\* __colorize_graph: the next top-level call of __paint_all
ColorizeGraph ==
    /\ pc = "colorize"
    /\ Top.fn = "colorize_graph"
    /\ Top.idx <= Len(ColorizeWork)
    /\ CallPaintAll(ColorizeWork[Top.idx][1], ColorizeWork[Top.idx][2])
    /\ UNCHANGED <<resolverVars, heap, project, gnodes, gedges, c2n>>

\* __paint_all, lines 85-88: recursion into the next transitive dependency
PaintAllRecurse ==
    /\ pc = "colorize"
    /\ Top.fn = "paint_all"
    /\ Top.idx <= Len(AllDependencies(Top.component))
    /\ CallPaintAll(AllDependencies(Top.component)[Top.idx][2], Top.color)
    /\ UNCHANGED <<resolverVars, heap, project, gnodes, gedges, c2n>>

\* __paint_all: loop exhausted, return to the caller
PaintAllReturn ==
    /\ pc = "colorize"
    /\ Top.fn = "paint_all"
    /\ Top.idx > Len(AllDependencies(Top.component))
    /\ stack' = Resume(Pop(stack))
    /\ last' = Observe("painted", Top.component, 0, Top.color)
    /\ UNCHANGED <<resolverVars, heap, project, nodeObj, gnodes, gedges, c2n, pc, error>>

\* __colorize_graph returns, build returns the graph (line 32)
BuildReturn ==
    /\ pc = "colorize"
    /\ Top.fn = "colorize_graph"
    /\ Top.idx > Len(ColorizeWork)
    /\ stack' = <<>>
    /\ pc' = "done"
    /\ last' = Observe("return", ProjectRef, RootRef, UNUSED)
    /\ UNCHANGED <<resolverVars, heap, project, nodeObj, gnodes, gedges, c2n, error>>

\* ----------------------------- classification as a function of the walk
Reverse(s) == [i \in 1..Len(s) |-> s[Len(s) + 1 - i]]

\* the node objects as the node walk leaves them: ComponentNode.__init__
\* sets the paint UNUSED and the walk assigns no usage
Unpainted ==
    [n \in 1..Len(nodeObj) |->
        IF nodeObj[n].kind = "component" THEN [nodeObj[n] EXCEPT !.paint = UNUSED]
        ELSE nodeObj[n]]

RECURSIVE PaintAllFrom(_, _, _, _)
RECURSIVE PaintEach(_, _, _, _)
\* __paint_all(dependency, component_to_nodes, color), lines 82-88: the node
\* objects after the call; rev: all_dependencies yields in reverse order
PaintAllFrom(objs, dep, color, rev) ==
    IF dep.component # NoComponent /\ MapHas(c2n, dep.component)
    THEN LET node == MapGet(c2n, dep.component)
             painted == [objs EXCEPT ![node] = UsageSetter(objs[node], color)]
             all == AllDependencies(dep.component)
             deps == [i \in 1..Len(all) |-> all[i][2]]
         IN PaintEach(painted, IF rev THEN Reverse(deps) ELSE deps, color, rev)
    ELSE objs

\* the loop over dependencies, lines 85-88 and 60-74
PaintEach(objs, deps, color, rev) ==
    IF deps = <<>> THEN objs
    ELSE PaintEach(PaintAllFrom(objs, Head(deps), color, rev), Tail(deps), color, rev)

RECURSIVE ColorizeFrom(_, _, _)
\* __colorize_graph over a list of passes
ColorizeFrom(objs, passes, rev) ==
    IF passes = <<>> THEN objs
    ELSE ColorizeFrom(PaintEach(objs,
                                IF rev THEN Reverse(Head(passes)[1]) ELSE Head(passes)[1],
                                Head(passes)[2], rev),
                      Tail(passes), rev)

\* __colorize_graph with its passes in the order perm
ColorizeIn(perm, rev) ==
    ColorizeFrom(Unpainted, [i \in 1..Len(ColorizePasses) |-> ColorizePasses[perm[i]]], rev)

\* ------------------------------------------ GraphBuilder on a given Project
Targets == {NoComponent} \cup (1..NumComponents)

RefName(t) ==
    IF t = NoComponent THEN "absent" ELSE IF t = ProjectRef THEN "P" ELSE NameSeq[t]

Deps(targets) == [i \in 1..Len(targets) |-> Dep(RefName(targets[i]), targets[i])]

Group(g, targets) == [group |-> g, items |-> Deps(targets)]

ComponentInfo(name, dependencies, resolved, version) ==
    [name |-> name, resolved_version |-> version, resolved |-> resolved,
     authors |-> <<>>, dependencies |-> dependencies, files |-> <<>>]

\* The dependency lists of a given Project: lists 1, 2, 3 are the Project's
\* groups default, extra, development; list 3 + i is component i's default
\* group. An input gives each list a length and the lists their targets.
DepLists == 1..(3 + NumComponents)

RECURSIVE SumTo(_, _)
SumTo(len, n) == IF n = 0 THEN 0 ELSE len[n] + SumTo(len, n - 1)

ListOf(len, t, l) == [j \in 1..len[l] |-> t[SumTo(len, l - 1) + j]]

\* no ProjectInfo was built yet
NoProjectInfo == ComponentInfo("None", <<>>, FALSE, UNDEFINED_VERSION)

\* the installed distributions were not asked yet
NoAnswers == [n \in Names |-> "unasked"]

\* no earlier run
NoRun == [ran |-> FALSE, nodes |-> <<>>, edges |-> {}, usage |-> <<>>, error |-> "none"]

\* no resolver state in a run that starts from a given Project
InitNoResolver ==
    /\ packages = <<>>
    /\ memo = <<>>
    /\ lookups = [n \in Names |-> 0]
    /\ warnings = <<>>
    /\ message = <<>>
    /\ answers = NoAnswers
    /\ manifest = <<>>
    /\ first = NoRun

\* GraphBuilder.__init__: Graph(RootNode(project))
InitGraphBuilder ==
    /\ nodeObj = <<RootNode(ProjectRef)>>
    /\ gnodes = <<RootRef>>
    /\ gedges = [n \in {RootRef} |-> {}]
    /\ c2n = <<>>
    /\ stack = <<>>
    /\ pc = "start"
    /\ error = "none"
    /\ last = Observe("init", ProjectRef, RootRef, UNUSED)

\* a Project whose dependency lists hold at most max entries over targets
GivenProject(targets, max) ==
    \E len \in [DepLists -> 0..max] :
        /\ SumTo(len, Len(len)) <= max
        /\ \E t \in [1..SumTo(len, Len(len)) -> targets] :
              /\ heap = [i \in 1..NumComponents |->
                            ComponentInfo(NameSeq[i],
                                <<Group(DEFAULT_GROUP_NAME, ListOf(len, t, 3 + i))>>,
                                TRUE, "1.0")]
              /\ project = ComponentInfo("P",
                              <<Group(DEFAULT_GROUP_NAME, ListOf(len, t, 1)),
                                Group(EXTRA_GROUP_NAME, ListOf(len, t, 2)),
                                Group(DEVELOPMENT_GROUP_NAME, ListOf(len, t, 3))>>,
                              TRUE, "1.0")

InitGraph ==
    /\ \/ GivenProject(Targets \ {NoComponent}, MaxDependencies)
       \/ GivenProject(Targets, MaxAbsentDependencies)
       \/ GivenProject(Targets \cup {ProjectRef}, MaxSelfDependencies)
    /\ InitGraphBuilder
    /\ InitNoResolver

NextGraph ==
    \/ Build
    \/ BuildGraphNodesRecurse
    \/ BuildGraphNodesSkip
    \/ BuildGraphNodesReturn
    \/ ColorizeGraph
    \/ PaintAllRecurse
    \/ PaintAllReturn
    \/ BuildReturn

SpecGraph == InitGraph /\ [][NextGraph]_vars

\* a Project over three ComponentInfo objects of which the first two have one
\* name: the second differs from the first in the fields given, or in none
SameNameDeps(heapNames, targets) ==
    [i \in 1..Len(targets) |->
        Dep(IF targets[i] = NoComponent THEN "absent" ELSE heapNames[targets[i]],
            targets[i])]

GivenSameName(version, resolved, max) ==
    LET heapNames == <<NameSeq[1], NameSeq[1], NameSeq[2]>>
        heapVersion == <<"1.0", version, "1.0">>
        heapResolved == <<TRUE, resolved, TRUE>>
    IN \E len \in [1..6 -> 0..max] :
          /\ SumTo(len, 6) <= max
          /\ \E t \in [1..SumTo(len, 6) -> {NoComponent, 1, 2, 3}] :
                /\ heap = [i \in 1..3 |->
                              ComponentInfo(heapNames[i],
                                  <<[group |-> DEFAULT_GROUP_NAME,
                                     items |-> SameNameDeps(heapNames, ListOf(len, t, 3 + i))]>>,
                                  heapResolved[i], heapVersion[i])]
                /\ project = ComponentInfo("P",
                                <<[group |-> DEFAULT_GROUP_NAME,
                                   items |-> SameNameDeps(heapNames, ListOf(len, t, 1))],
                                  [group |-> EXTRA_GROUP_NAME,
                                   items |-> SameNameDeps(heapNames, ListOf(len, t, 2))],
                                  [group |-> DEVELOPMENT_GROUP_NAME,
                                   items |-> SameNameDeps(heapNames, ListOf(len, t, 3))]>>,
                                TRUE, "1.0")

InitSameName ==
    /\ \E version \in {"1.0", "2.0"}, resolved \in BOOLEAN :
          GivenSameName(version, resolved, MaxSameNameDependencies)
    /\ InitGraphBuilder
    /\ InitNoResolver

SpecSameName == InitSameName /\ [][NextGraph]_vars

\* ------------------------------------------- graph.py called directly
\* ComponentNode(component, group)
ApiNewComponentNode ==
    /\ pc = "api"
    /\ Len(nodeObj) < 1 + Len(heap)
    /\ \E c \in 1..Len(heap), g \in {NoGroup, DEFAULT_GROUP_NAME} :
          /\ nodeObj' = Append(nodeObj, ComponentNode(c, g))
          /\ last' = Observe("new_node", c, Len(nodeObj) + 1, UNUSED)
    /\ error' = "none"
    /\ UNCHANGED <<resolverVars, heap, project, gnodes, gedges, c2n, stack, pc>>

\* Graph.add_node(node)
ApiAddNode ==
    /\ pc = "api"
    /\ Len(gnodes) < MaxApiListLen
    /\ \E n \in 1..Len(nodeObj) :
          /\ gnodes' = AddNodeTo(gnodes, n)
          /\ last' = Observe("add_node", nodeObj[n].component, n, UNUSED)
    /\ error' = "none"
    /\ UNCHANGED <<resolverVars, heap, project, nodeObj, gedges, c2n, stack, pc>>

\* Graph.add_edge(from_node, to_node)
ApiAddEdge ==
    /\ pc = "api"
    /\ \E from \in 1..Len(nodeObj), to \in 1..Len(nodeObj) :
          /\ gedges' = AddEdgeTo(gnodes, gedges, from, to)
          /\ error' = AddEdgeError(gnodes, from, to)
          /\ last' = Observe("add_edge", nodeObj[to].component, from, to)
    /\ UNCHANGED <<resolverVars, heap, project, nodeObj, gnodes, c2n, stack, pc>>

\* node.usage = kind
ApiSetUsage ==
    /\ pc = "api"
    /\ \E n \in 1..Len(nodeObj), kind \in UsageKind :
          /\ nodeObj' = [nodeObj EXCEPT ![n] = UsageSetter(nodeObj[n], kind)]
          /\ last' = Observe("set_usage", nodeObj[n].component, n, kind)
    /\ error' = "none"
    /\ UNCHANGED <<resolverVars, heap, project, gnodes, gedges, c2n, stack, pc>>

\* Graph(RootNode(project)) over a project without dependencies
InitApi ==
    /\ heap = <<ComponentInfo(NameSeq[1], <<Group(DEFAULT_GROUP_NAME, <<>>)>>,
                              TRUE, "1.0")>>
    /\ project = ComponentInfo("P", <<Group(DEFAULT_GROUP_NAME, <<>>)>>, TRUE, "1.0")
    /\ nodeObj = <<RootNode(ProjectRef)>>
    /\ gnodes = <<RootRef>>
    /\ gedges = [n \in {RootRef} |-> {}]
    /\ c2n = <<>>
    /\ stack = <<>>
    /\ pc = "api"
    /\ error = "none"
    /\ last = Observe("init", ProjectRef, RootRef, UNUSED)
    /\ InitNoResolver

NextApi ==
    \/ ApiNewComponentNode
    \/ ApiAddNode
    \/ ApiAddEdge
    \/ ApiSetUsage

SpecApi == InitApi /\ [][NextApi]_vars

\* Graph(RootNode(project)) and two components to wrap into nodes; the usage
\* of a node has no part in add_node and add_edge
InitEdges ==
    /\ heap = [i \in 1..2 |-> ComponentInfo(NameSeq[i], <<Group(DEFAULT_GROUP_NAME, <<>>)>>,
                                             TRUE, "1.0")]
    /\ project = ComponentInfo("P", <<Group(DEFAULT_GROUP_NAME, <<>>)>>, TRUE, "1.0")
    /\ nodeObj = <<RootNode(ProjectRef)>>
    /\ gnodes = <<RootRef>>
    /\ gedges = [n \in {RootRef} |-> {}]
    /\ c2n = <<>>
    /\ stack = <<>>
    /\ pc = "api"
    /\ error = "none"
    /\ last = Observe("init", ProjectRef, RootRef, UNUSED)
    /\ InitNoResolver

NextEdges ==
    \/ ApiNewComponentNode
    \/ ApiAddNode
    \/ ApiAddEdge

SpecEdges == InitEdges /\ [][NextEdges]_vars

\* ------------------------------------------------ project/builder.py
\* ReferencedComponent
ReferencedComponent(name, version, dependencies) ==
    [name |-> name, version |-> version, dependencies |-> dependencies,
     files |-> <<name>>]

\* version strings of lock records: a version, and the empty string
Versions == {"1.0", ""}

\* packaging.version.Version(text): raises InvalidVersion unless text matches
ValidVersion(text) == text # ""

\* add_from_lock_file, line 135: {m.name: m for m in lock_file.packages},
\* as the list of its values: first position of a name, last record of it
RECURSIVE PackageMapOf(_, _)
PackageMapOf(pkgs, seen) ==
    IF pkgs = <<>> THEN <<>>
    ELSE IF Head(pkgs).name \in seen THEN PackageMapOf(Tail(pkgs), seen)
    ELSE LET same == {i \in 1..Len(pkgs) : pkgs[i].name = Head(pkgs).name}
             lastIdx == CHOOSE i \in same : \A j \in same : j <= i
         IN <<pkgs[lastIdx]>> \o PackageMapOf(Tail(pkgs), seen \cup {Head(pkgs).name})

PackageMap == PackageMapOf(packages, {})

InPackageMap(name) == \E i \in 1..Len(PackageMap) : PackageMap[i].name = name

PackageOf(name) ==
    PackageMap[CHOOSE i \in 1..Len(PackageMap) : PackageMap[i].name = name]

\* MetaDataResolver.resolve, lines 118-123: importlib.metadata finds the
\* distribution, does not find it, or rejects the name; the installed
\* distributions do not change, a name asked again gets the same answer
MetaDataAnswers(asked, name) ==
    IF asked[name] = "unasked" THEN {"found", "notfound", "invalid"} ELSE {asked[name]}

\* add_from_lock_file, line 138
AlreadyResolved(components, name) == name \in DOMAIN components

\* _resolve without its memo check
IsMemoizedNever(components, name) == FALSE

\* _resolve, line 144
IsMemoized(components, name) == name \in DOMAIN components

\* self._components[name] = component
MemoPut(components, name, c) ==
    [n \in (DOMAIN components) \cup {name} |-> IF n = name THEN c ELSE components[n]]

\* the Author fields of the metadata of an installed distribution
MetaDataAuthors(name) == <<name>>

\* the test taken for a dependency on any record
IsSelfDependencyAlways(reference, dependency) == TRUE

\* _resolve, line 150
IsSelfDependency(reference, dependency) == dependency = reference.name

\* the placeholder built with the dependencies the loop collected for the
\* record: its declared dependencies, itself excepted, each with its Component
UnresolvedComponentWithDependencies(name, files) ==
    LET declared == PackageOf(name).dependencies
        NotSelf(d) == ~IsSelfDependency(PackageOf(name), d)
        others == SelectSeq(declared, NotSelf)
    IN [name |-> name, resolved_version |-> UNDEFINED_VERSION, resolved |-> FALSE,
        authors |-> <<>>,
        dependencies |-> <<[group |-> DEFAULT_GROUP_NAME,
                            items |-> [i \in 1..Len(others) |-> Dep(others[i], memo[others[i]])]]>>,
        files |-> files]

\* the placeholder built without the files of the record
UnresolvedComponentNoFiles(name, files) ==
    [name |-> name, resolved_version |-> UNDEFINED_VERSION, resolved |-> FALSE,
     authors |-> <<>>, dependencies |-> <<>>, files |-> <<>>]

\* unresolved_component
UnresolvedComponent(name, files) ==
    [name |-> name, resolved_version |-> UNDEFINED_VERSION, resolved |-> FALSE,
     authors |-> <<>>, dependencies |-> <<>>, files |-> files]

\* the resolved component built without the dependencies collected for it
ResolvedComponentNoDependencies(reference, dependencies) ==
    [name |-> reference.name, resolved_version |-> reference.version,
     resolved |-> TRUE, authors |-> MetaDataAuthors(reference.name),
     dependencies |-> <<[group |-> DEFAULT_GROUP_NAME, items |-> <<>>]>>,
     files |-> reference.files]

\* _resolve, lines 178-185
ResolvedComponent(reference, dependencies) ==
    [name |-> reference.name, resolved_version |-> reference.version,
     resolved |-> TRUE, authors |-> MetaDataAuthors(reference.name),
     dependencies |-> <<[group |-> DEFAULT_GROUP_NAME, items |-> dependencies]>>,
     files |-> reference.files]

ResolveFrame(fn, name) ==
    [fn |-> fn, component |-> name, idx |-> 1, color |-> UNUSED, deps |-> <<>>]

ResolveObserve(op, ref, name, by) ==
    [op |-> op, target |-> ref, node |-> 0, kind |-> UNUSED, name |-> name, by |-> by]

ErrorMessage(text, args) == [text |-> text, args |-> args]

\* the caller's frame after a callee returned component c for the caller's
\* current dependency: lines 163-169 in _resolve, line 140 in add_from_lock_file
ReturnInto(st, c) ==
    [i \in 1..Len(st) |->
        IF i # Len(st) THEN st[i]
        ELSE IF st[i].fn = "resolve"
        THEN [st[i] EXCEPT !.idx = @ + 1,
                 !.deps = Append(@, Dep(PackageOf(st[i].component).dependencies[st[i].idx], c))]
        ELSE [st[i] EXCEPT !.idx = @ + 1]]

\* ComponentBuilder.add_from_lock_file is called (lines 134-135)
AddFromLockFile ==
    /\ pc = "lock"
    /\ stack' = <<ResolveFrame("add_from_lock_file", "")>>
    /\ pc' = "resolving"
    /\ last' = ResolveObserve("add_from_lock_file", NoComponent, "", "")
    /\ UNCHANGED <<heap, project, nodeObj, gnodes, gedges, c2n, error, resolverVars>>

\* add_from_lock_file, lines 136-140: the next record of the package map
AddFromLockFileNext ==
    /\ pc = "resolving"
    /\ Top.fn = "add_from_lock_file"
    /\ Top.idx <= Len(PackageMap)
    /\ LET reference == PackageMap[Top.idx]
       IN IF AlreadyResolved(memo, reference.name)
          THEN /\ stack' = Resume(stack)
               /\ last' = ResolveObserve("known", memo[reference.name], reference.name, "")
          ELSE /\ stack' = Append(stack, ResolveFrame("resolve", reference.name))
               /\ last' = ResolveObserve("start", NoComponent, reference.name, "")
    /\ UNCHANGED <<heap, project, nodeObj, gnodes, gedges, c2n, pc, error, resolverVars>>

\* _resolve, lines 150-153: a dependency on the record itself is skipped
ResolveSelfDependency ==
    /\ pc = "resolving"
    /\ Top.fn = "resolve"
    /\ Top.idx <= Len(PackageOf(Top.component).dependencies)
    /\ LET reference == PackageOf(Top.component)
           dependency == reference.dependencies[Top.idx]
       IN /\ IsSelfDependency(reference, dependency)
          /\ warnings' = IF Len(reference.dependencies) = 0
                         THEN Append(warnings, [text |-> "circular", name |-> dependency])
                         ELSE warnings
          /\ last' = ResolveObserve("self", NoComponent, dependency, reference.name)
    /\ stack' = Resume(stack)
    /\ UNCHANGED <<heap, project, nodeObj, gnodes, gedges, c2n, pc, error,
                   packages, memo, lookups, message, answers, inputVars>>

\* _resolve, lines 154-157: the dependency names no record of the package map
ResolveMissing ==
    /\ pc = "resolving"
    /\ Top.fn = "resolve"
    /\ Top.idx <= Len(PackageOf(Top.component).dependencies)
    /\ LET reference == PackageOf(Top.component)
           dependency == reference.dependencies[Top.idx]
           package_name == dependency
       IN /\ ~IsSelfDependency(reference, dependency)
          /\ ~InPackageMap(package_name)
          /\ message' = ErrorMessage("Could not find package {} derived from {} in package map.",
                                     <<package_name, dependency>>)
          /\ last' = ResolveObserve("missing", NoComponent, package_name, reference.name)
    /\ Raise("DependencyTreeError")
    /\ UNCHANGED <<heap, project, nodeObj, gnodes, gedges, c2n,
                   packages, memo, lookups, warnings, answers, inputVars>>

\* _resolve, lines 159-169: the dependency is resolved by the recursive call,
\* which returns the memoized component (lines 144-146)
ResolveDependencyMemoized ==
    /\ pc = "resolving"
    /\ Top.fn = "resolve"
    /\ Top.idx <= Len(PackageOf(Top.component).dependencies)
    /\ LET reference == PackageOf(Top.component)
           dependency == reference.dependencies[Top.idx]
       IN /\ ~IsSelfDependency(reference, dependency)
          /\ InPackageMap(dependency)
          /\ IsMemoized(memo, dependency)
          /\ stack' = ReturnInto(stack, memo[dependency])
          /\ last' = ResolveObserve("memoized", memo[dependency], dependency, reference.name)
    /\ UNCHANGED <<heap, project, nodeObj, gnodes, gedges, c2n, pc, error, resolverVars>>

\* _resolve, lines 159-161: the recursive call for a dependency that is not
\* memoized enters its own loop
ResolveDependencyRecurse ==
    /\ pc = "resolving"
    /\ Top.fn = "resolve"
    /\ Top.idx <= Len(PackageOf(Top.component).dependencies)
    /\ LET reference == PackageOf(Top.component)
           dependency == reference.dependencies[Top.idx]
       IN /\ ~IsSelfDependency(reference, dependency)
          /\ InPackageMap(dependency)
          /\ ~IsMemoized(memo, dependency)
          /\ last' = ResolveObserve("recurse", NoComponent, dependency, reference.name)
          /\ IF Len(stack) >= RecursionLimit
             THEN Raise("RecursionError")
             ELSE /\ stack' = Append(stack, ResolveFrame("resolve", dependency))
                  /\ UNCHANGED <<pc, error>>
    /\ UNCHANGED <<heap, project, nodeObj, gnodes, gedges, c2n, resolverVars>>

\* _resolve, lines 171-198: the loop is exhausted; the metadata resolver is
\* asked, the component is built and memoized, and the call returns
ResolveFinish ==
    /\ pc = "resolving"
    /\ Top.fn = "resolve"
    /\ Top.idx > Len(PackageOf(Top.component).dependencies)
    /\ LET reference == PackageOf(Top.component)
           ref == Len(heap) + 1
       IN /\ lookups' = [lookups EXCEPT ![reference.name] = @ + 1]
          /\ \E outcome \in MetaDataAnswers(answers, reference.name) :
             /\ answers' = [answers EXCEPT ![reference.name] = outcome]
             /\ \/ /\ outcome = "invalid"       \* MetaDataResolver.resolve, lines 120-121
                      /\ Raise("DependencyTreeError")
                      /\ message' = ErrorMessage("Invalid package name: {}", <<reference.name>>)
                      /\ last' = ResolveObserve("invalid", NoComponent, reference.name, "")
                      /\ UNCHANGED <<heap, memo, warnings>>
                   \/ /\ outcome = "found"
                      /\ ~ValidVersion(reference.version)      \* line 183
                      /\ Raise("InvalidVersion")
                      /\ last' = ResolveObserve("version", NoComponent, reference.name, "")
                      /\ UNCHANGED <<heap, memo, warnings, message>>
                   \/ /\ outcome = "found"
                      /\ ValidVersion(reference.version)
                      /\ heap' = Append(heap, ResolvedComponent(reference, Top.deps))
                      /\ memo' = MemoPut(memo, reference.name, ref)
                      /\ stack' = ReturnInto(Pop(stack), ref)
                      /\ last' = ResolveObserve("resolved", ref, reference.name, "")
                      /\ UNCHANGED <<warnings, message, pc, error>>
                   \/ /\ outcome = "notfound"      \* lines 186-193
                      /\ heap' = Append(heap, UnresolvedComponent(reference.name, reference.files))
                      /\ memo' = MemoPut(memo, reference.name, ref)
                      /\ warnings' = Append(warnings,
                                            [text |-> "not installed", name |-> reference.name])
                      /\ stack' = ReturnInto(Pop(stack), ref)
                      /\ last' = ResolveObserve("unresolved", ref, reference.name, "")
                      /\ UNCHANGED <<message, pc, error>>
    /\ UNCHANGED <<project, nodeObj, gnodes, gedges, c2n, packages, inputVars>>

\* add_from_lock_file returns: every record of the package map was handled
AddFromLockFileReturn ==
    /\ pc = "resolving"
    /\ Top.fn = "add_from_lock_file"
    /\ Top.idx > Len(PackageMap)
    /\ stack' = <<>>
    /\ pc' = "resolved"
    /\ last' = ResolveObserve("return", NoComponent, "", "")
    /\ UNCHANGED <<heap, project, nodeObj, gnodes, gedges, c2n, error, resolverVars>>

\* resolve without its check: the dict lookup raises
ResolveErrorKeyError(components, name) ==
    IF name \notin DOMAIN components THEN "KeyError" ELSE "none"

\* ComponentBuilder.resolve, lines 202-203: the raised error, or "none"
ResolveError(components, name) ==
    IF name \notin DOMAIN components THEN "DependencyTreeError" ELSE "none"

\* ComponentBuilder.resolve(requirement)
ResolveRequirement ==
    /\ pc = "resolved"
    /\ \E name \in Names :
          IF ResolveError(memo, name) = "none"
          THEN /\ last' = ResolveObserve("resolve", memo[name], name, "")
               /\ error' = "none"
               /\ message' = <<>>
          ELSE /\ last' = ResolveObserve("resolve_failed", NoComponent, name, "")
               /\ error' = ResolveError(memo, name)
               /\ message' = ErrorMessage("Could not find dependency {} in list of dependencies",
                                          <<name>>)
    /\ UNCHANGED <<heap, project, nodeObj, gnodes, gedges, c2n, stack, pc,
                   packages, memo, lookups, warnings, answers, inputVars>>

\* ComponentBuilder.__init__ and a lock file to resolve
InitResolver ==
    /\ \E r \in 0..NumComponents :
          \E names \in [1..r -> Names], vers \in [1..r -> Versions],
             len \in [1..r -> 0..MaxLockDeps] :
             /\ SumTo(len, r) <= MaxLockDeps
             /\ \E t \in [1..SumTo(len, r) -> Names] :
                   packages = [i \in 1..r |->
                                  ReferencedComponent(names[i], vers[i], ListOf(len, t, i))]
    /\ memo = <<>>
    /\ lookups = [n \in Names |-> 0]
    /\ warnings = <<>>
    /\ message = <<>>
    /\ answers = NoAnswers
    /\ manifest = <<>>
    /\ first = NoRun
    /\ heap = <<>>
    /\ project = NoProjectInfo
    /\ nodeObj = <<>>
    /\ gnodes = <<>>
    /\ gedges = <<>>
    /\ c2n = <<>>
    /\ stack = <<>>
    /\ pc = "lock"
    /\ error = "none"
    /\ last = ResolveObserve("init", NoComponent, "", "")

NextResolver ==
    \/ AddFromLockFile
    \/ AddFromLockFileNext
    \/ ResolveSelfDependency
    \/ ResolveMissing
    \/ ResolveDependencyMemoized
    \/ ResolveDependencyRecurse
    \/ ResolveFinish
    \/ AddFromLockFileReturn
    \/ ResolveRequirement

SpecResolver == InitResolver /\ [][NextResolver]_vars

\* ComponentBuilder.__init__ and a lock file with a record of the first name
\* that declares up to max dependencies, itself among them or not, before or
\* after records of other names that declare none
GivenSelfDependency(max) ==
    \E k \in 0..max :
        \E t \in [1..k -> Names], others \in SUBSET (2..NumComponents), front \in BOOLEAN :
            LET own == <<ReferencedComponent(NameSeq[1], "1.0", t)>>
                rest == [i \in 1..Cardinality(others) |->
                            ReferencedComponent(
                                NameSeq[CHOOSE j \in others :
                                            Cardinality({m \in others : m < j}) = i - 1],
                                "1.0", <<>>)]
            IN packages = IF front THEN own \o rest ELSE rest \o own

InitSelfDependency ==
    /\ GivenSelfDependency(MaxSelfListLen)
    /\ memo = <<>>
    /\ lookups = [n \in Names |-> 0]
    /\ warnings = <<>>
    /\ message = <<>>
    /\ answers = NoAnswers
    /\ manifest = <<>>
    /\ first = NoRun
    /\ heap = <<>>
    /\ project = NoProjectInfo
    /\ nodeObj = <<>>
    /\ gnodes = <<>>
    /\ gedges = <<>>
    /\ c2n = <<>>
    /\ stack = <<>>
    /\ pc = "lock"
    /\ error = "none"
    /\ last = ResolveObserve("init", NoComponent, "", "")

SpecSelfDependency == InitSelfDependency /\ [][NextResolver]_vars

\* pkgs is a lock file with one record for each of some names, in the order
\* of the names, the records declaring at most maxDeps dependencies in all
\* and none on themselves
GivenLockFile(pkgs, maxDeps) ==
    \E present \in SUBSET (1..NumComponents) :
        \E len \in [1..Cardinality(present) -> 0..maxDeps] :
            /\ SumTo(len, Cardinality(present)) <= maxDeps
            /\ \E t \in [1..SumTo(len, Cardinality(present)) -> Names] :
                  LET nameOf == [i \in 1..Cardinality(present) |->
                                    NameSeq[CHOOSE j \in present :
                                                Cardinality({m \in present : m < j}) = i - 1]]
                  IN /\ \A i \in 1..Cardinality(present) :
                           nameOf[i] \notin Range(ListOf(len, t, i))
                     /\ pkgs = [i \in 1..Cardinality(present) |->
                                   ReferencedComponent(nameOf[i], "1.0", ListOf(len, t, i))]

\* add_from_lock_file has returned or raised: its package map was a local of
\* the call, the builder keeps the memo (line 128)
AddFromLockFileLeave ==
    /\ pc \in {"resolved", "failed"}
    /\ packages' = <<>>
    /\ stack' = <<>>
    /\ pc' = "idle"
    /\ error' = "none"
    /\ message' = <<>>
    /\ lookups' = [n \in Names |-> 0]
    /\ last' = ResolveObserve("idle", NoComponent, "", "")
    /\ UNCHANGED <<heap, project, nodeObj, gnodes, gedges, c2n,
                   memo, warnings, answers, inputVars>>

\* the builder is given another lock file
AddFromLockFileAgain ==
    /\ pc = "idle"
    /\ GivenLockFile(packages', MaxCallDeps)
    /\ pc' = "lock"
    /\ last' = ResolveObserve("init", NoComponent, "", "")
    /\ UNCHANGED <<heap, project, nodeObj, gnodes, gedges, c2n, stack, error,
                   memo, lookups, warnings, message, answers, inputVars>>

InitCalls ==
    /\ GivenLockFile(packages, MaxCallDeps)
    /\ memo = <<>>
    /\ lookups = [n \in Names |-> 0]
    /\ warnings = <<>>
    /\ message = <<>>
    /\ answers = NoAnswers
    /\ manifest = <<>>
    /\ first = NoRun
    /\ heap = <<>>
    /\ project = NoProjectInfo
    /\ nodeObj = <<>>
    /\ gnodes = <<>>
    /\ gedges = <<>>
    /\ c2n = <<>>
    /\ stack = <<>>
    /\ pc = "lock"
    /\ error = "none"
    /\ last = ResolveObserve("init", NoComponent, "", "")

\* no record of these lock files lists itself, so the branch of
\* ResolveSelfDependency is never taken here
NextCalls ==
    \/ AddFromLockFile
    \/ AddFromLockFileNext
    \/ ResolveMissing
    \/ ResolveDependencyMemoized
    \/ ResolveDependencyRecurse
    \/ ResolveFinish
    \/ AddFromLockFileReturn
    \/ AddFromLockFileLeave
    \/ AddFromLockFileAgain

SpecCalls == InitCalls /\ [][NextCalls]_vars

\* ------------------------------ ProjectBuilder.build, then build_dag
\* ProjectBuilder.build, line 229: the frame of the loop over the groups
ProjectBuildFrame ==
    [fn |-> "project_build", component |-> "", idx |-> 1, color |-> UNUSED,
     deps |-> <<>>, group |-> 1, groups |-> <<>>]

\* ProjectInfo(...), lines 240-255
ProjectInfo(dependencies) == ComponentInfo("P", dependencies, TRUE, "1.0")

\* ProjectBuilder.build, lines 227-229: add_from_lock_file has returned
ProjectBuildGroups ==
    /\ pc = "resolved"
    /\ stack' = <<ProjectBuildFrame>>
    /\ pc' = "assembling"
    /\ last' = ResolveObserve("groups", NoComponent, "", "")
    /\ UNCHANGED <<heap, project, nodeObj, gnodes, gedges, c2n, error, resolverVars>>

\* ProjectBuilder.build, lines 235-237: components.resolve(dependency)
ProjectBuildResolve ==
    /\ pc = "assembling"
    /\ Top.group <= Len(manifest)
    /\ Top.idx <= Len(manifest[Top.group].items)
    /\ LET name == manifest[Top.group].items[Top.idx]
       IN IF ResolveError(memo, name) = "none"
          THEN /\ stack' = <<[Top EXCEPT !.idx = @ + 1,
                                        !.deps = Append(@, Dep(name, memo[name]))]>>
               /\ last' = ResolveObserve("resolve", memo[name], name, "")
               /\ UNCHANGED <<pc, error, message>>
          ELSE /\ Raise(ResolveError(memo, name))
               /\ message' = ErrorMessage("Could not find dependency {} in list of dependencies",
                                          <<name>>)
               /\ last' = ResolveObserve("resolve_failed", NoComponent, name, "")
    /\ UNCHANGED <<heap, project, nodeObj, gnodes, gedges, c2n,
                   packages, memo, lookups, warnings, answers, inputVars>>

\* ProjectBuilder.build, line 238: dependencies[group] = dependency_group
ProjectBuildGroupDone ==
    /\ pc = "assembling"
    /\ Top.group <= Len(manifest)
    /\ Top.idx > Len(manifest[Top.group].items)
    /\ stack' = <<[Top EXCEPT !.group = @ + 1, !.idx = 1, !.deps = <<>>,
                              !.groups = Append(@, [group |-> manifest[Top.group].group,
                                                    items |-> Top.deps])]>>
    /\ last' = ResolveObserve("group", NoComponent, manifest[Top.group].group, "")
    /\ UNCHANGED <<heap, project, nodeObj, gnodes, gedges, c2n, pc, error, resolverVars>>

\* ProjectBuilder.build, lines 240-259: the ProjectInfo is built and returned
ProjectBuildReturn ==
    /\ pc = "assembling"
    /\ Top.group > Len(manifest)
    /\ project' = ProjectInfo(Top.groups)
    /\ stack' = <<>>
    /\ pc' = "project"
    /\ last' = ResolveObserve("project", ProjectRef, "P", "")
    /\ UNCHANGED <<heap, nodeObj, gnodes, gedges, c2n, error, resolverVars>>

\* build_dag, line 18: GraphBuilder(project), with Graph(RootNode(project))
BuildDag ==
    /\ pc = "project"
    /\ nodeObj' = <<RootNode(ProjectRef)>>
    /\ gnodes' = <<RootRef>>
    /\ gedges' = [n \in {RootRef} |-> {}]
    /\ c2n' = <<>>
    /\ pc' = "start"
    /\ last' = Observe("init", ProjectRef, RootRef, UNUSED)
    /\ UNCHANGED <<heap, project, stack, error, resolverVars>>

\* what a run returned: the nodes by component name in list order, the
\* edges by component names, the usage of each node, the error
GraphOfRun ==
    [ran |-> TRUE,
     nodes |-> [i \in 1..Len(gnodes) |-> Obj(nodeObj[gnodes[i]].component).name],
     edges |-> UNION {{<<Obj(nodeObj[n].component).name, Obj(nodeObj[m].component).name>> :
                          m \in gedges[n]} : n \in DOMAIN gedges},
     usage |-> [i \in 1..Len(gnodes) |-> nodeObj[gnodes[i]].paint],
     error |-> error]

\* the program runs again on the same lock records and manifest, nothing of
\* the earlier run is kept but what it returned
RunAgain ==
    /\ pc \in {"done", "failed"}
    /\ ~first.ran
    /\ first' = GraphOfRun
    /\ heap' = <<>>
    /\ project' = NoProjectInfo
    /\ nodeObj' = <<>>
    /\ gnodes' = <<>>
    /\ gedges' = <<>>
    /\ c2n' = <<>>
    /\ stack' = <<>>
    /\ pc' = "lock"
    /\ error' = "none"
    /\ last' = ResolveObserve("init", NoComponent, "", "")
    /\ memo' = <<>>
    /\ lookups' = [n \in Names |-> 0]
    /\ warnings' = <<>>
    /\ message' = <<>>
    /\ UNCHANGED <<packages, manifest, answers>>

\* the groups of a manifest: default, the optional groups, development
\* (reader.py, lines 124-138)
ManifestOf(len, t) ==
    <<[group |-> DEFAULT_GROUP_NAME, items |-> ListOf(len, t, 1)],
      [group |-> EXTRA_GROUP_NAME, items |-> ListOf(len, t, 2)],
      [group |-> DEVELOPMENT_GROUP_NAME, items |-> ListOf(len, t, 3)]>>

\* lock records of the first r names and a manifest, max entries in all
GivenLockAndManifest(r, max) ==
    \E len \in [1..(3 + r) -> 0..max] :
        /\ SumTo(len, 3 + r) <= max
        /\ \E t \in [1..SumTo(len, 3 + r) -> Names] :
              /\ manifest = ManifestOf(len, t)
              /\ packages = [i \in 1..r |->
                                ReferencedComponent(NameSeq[i], "1.0", ListOf(len, t, 3 + i))]

\* the lock records A -> B -> C and a manifest of at most max entries
GivenChainAndManifest(max) ==
    \E len \in [1..3 -> 0..max] :
        /\ SumTo(len, 3) <= max
        /\ \E t \in [1..SumTo(len, 3) -> Names] :
              /\ manifest = ManifestOf(len, t)
              /\ packages = [i \in 1..NumComponents |->
                                ReferencedComponent(NameSeq[i], "1.0",
                                    IF i < NumComponents THEN <<NameSeq[i + 1]>> ELSE <<>>)]

InitPipeline ==
    /\ \/ \E r \in 0..NumComponents : GivenLockAndManifest(r, MaxPipelineEntries)
       \/ GivenChainAndManifest(MaxManifestEntries)
    /\ memo = <<>>
    /\ lookups = [n \in Names |-> 0]
    /\ warnings = <<>>
    /\ message = <<>>
    /\ answers = NoAnswers
    /\ first = NoRun
    /\ heap = <<>>
    /\ project = NoProjectInfo
    /\ nodeObj = <<>>
    /\ gnodes = <<>>
    /\ gedges = <<>>
    /\ c2n = <<>>
    /\ stack = <<>>
    /\ pc = "lock"
    /\ error = "none"
    /\ last = ResolveObserve("init", NoComponent, "", "")

\* a DependencyInfo built by ComponentBuilder always has a component, so
\* the walk never takes the branch of BuildGraphNodesSkip here
NextPipeline ==
    \/ AddFromLockFile
    \/ AddFromLockFileNext
    \/ ResolveSelfDependency
    \/ ResolveMissing
    \/ ResolveDependencyMemoized
    \/ ResolveDependencyRecurse
    \/ ResolveFinish
    \/ AddFromLockFileReturn
    \/ ProjectBuildGroups
    \/ ProjectBuildResolve
    \/ ProjectBuildGroupDone
    \/ ProjectBuildReturn
    \/ BuildDag
    \/ Build
    \/ BuildGraphNodesRecurse
    \/ BuildGraphNodesReturn
    \/ ColorizeGraph
    \/ PaintAllRecurse
    \/ PaintAllReturn
    \/ BuildReturn
    \/ RunAgain

SpecPipeline == InitPipeline /\ [][NextPipeline]_vars

\* ============================================================ properties
\* ---------------------------------------------------- reference notions
\* components a component refers to through non-absent references
Succ(c) ==
    {AllDependencies(c)[i][2].component : i \in 1..Len(AllDependencies(c))}
        \ {NoComponent}

RECURSIVE Closure(_, _)
Closure(S, n) ==
    IF n = 0 THEN S ELSE Closure(S \cup UNION {Succ(c) : c \in S}, n - 1)

\* components reachable from the targets of a list of dependencies
ReachedFrom(items) ==
    Closure({items[i].component : i \in 1..Len(items)} \ {NoComponent}, Len(heap) + 1)

ReachedFromProject == ReachedFrom([i \in 1..Len(AllDependencies(ProjectRef)) |->
                                      AllDependencies(ProjectRef)[i][2]])

\* kinds of the passes that reach component c
PassKinds(c) ==
    (IF c \in ReachedFrom(DevelopmentDependencies) THEN {DEVELOPMENT} ELSE {})
    \cup (IF c \in ReachedFrom(OptionalDependencies) THEN {OPTIONAL} ELSE {})
    \cup (IF c \in ReachedFrom(DefaultDependencies) THEN {REQUIRED} ELSE {})

MaxOf(S) == CHOOSE k \in S : \A j \in S : j <= k

ComponentNodes == {n \in 1..Len(nodeObj) : nodeObj[n].kind = "component"}

NodesOf(c) == {i \in 1..Len(gnodes) : nodeObj[gnodes[i]].component = c}

\* C1: after build, the usage of every component node is the maximum kind
\* over the passes (development, optional, default) whose dependencies reach
\* the node's component through non-absent references.
C1_FinalUsageIsMax ==
    pc = "done" =>
        \A n \in ComponentNodes :
            /\ PassKinds(nodeObj[n].component) # {}
            /\ Usage(n) = MaxOf(PassKinds(nodeObj[n].component))

C1_Witness ==
    /\ pc = "done"
    /\ \E n \in ComponentNodes :
          /\ PassKinds(nodeObj[n].component) = {DEVELOPMENT, REQUIRED}
          /\ Usage(n) = REQUIRED
          /\ ~\E i \in 1..Len(DefaultDependencies) :
                 DefaultDependencies[i].component = nodeObj[n].component
    /\ \E n \in ComponentNodes : Usage(n) = DEVELOPMENT

\* C2: every usage assignment to a component node leaves the usage unchanged
\* when the assigned kind is not greater than the current one and otherwise
\* moves it strictly forward to the assigned kind; no usage ever decreases.
C2_Step ==
    \A n \in 1..Len(nodeObj) :
        /\ nodeObj'[n].paint >= nodeObj[n].paint
        /\ (/\ last'.op \in {"set_usage", "paint"}
            /\ last' # last
            /\ last'.node = n
            /\ nodeObj[n].kind = "component")
           => /\ last'.kind <= nodeObj[n].paint => nodeObj'[n] = nodeObj[n]
              /\ last'.kind > nodeObj[n].paint =>
                    /\ nodeObj'[n].paint = last'.kind
                    /\ nodeObj'[n].paint > nodeObj[n].paint
              /\ (/\ last'.kind \in {DEVELOPMENT, OPTIONAL, REQUIRED}
                  /\ nodeObj[n].paint \in {UNUSED, DEVELOPMENT, OPTIONAL, REQUIRED})
                 => nodeObj'[n].paint \in {DEVELOPMENT, OPTIONAL, REQUIRED}

C2_UsageNeverDecreases == [][C2_Step]_vars

C2_Witness ==
    /\ last.op = "set_usage"
    /\ nodeObj[last.node].kind = "component"
    /\ last.kind = DEVELOPMENT
    /\ Usage(last.node) = REQUIRED

\* C3: during and after build the root node's usage is ROOT, no component
\* node has usage ROOT, and every kind the classifier assigns is one of
\* DEVELOPMENT, OPTIONAL, REQUIRED.
C3_RootOnlyRoot ==
    /\ nodeObj[RootRef].kind = "root"
    /\ Usage(RootRef) = ROOT
    /\ \A n \in ComponentNodes : Usage(n) # ROOT
    /\ last.op = "paint" => last.kind \in {DEVELOPMENT, OPTIONAL, REQUIRED}

C3_Witness ==
    /\ last.op = "paint"
    /\ last.kind = REQUIRED
    /\ Usage(last.node) = REQUIRED
    /\ Usage(RootRef) = ROOT

\* records of the package map that declare a dependency on name n
Dependents(n) ==
    {i \in 1..Len(PackageMap) :
        /\ PackageMap[i].name # n
        /\ \E j \in 1..Len(PackageMap[i].dependencies) :
              PackageMap[i].dependencies[j] = n}

WarningsAbout(n) == {i \in 1..Len(warnings) : warnings[i].name = n}

\* C4: in a resolution run on a fresh builder the metadata resolver is asked
\* at most once for each name.
C4_LookupAtMostOnce == \A n \in Names : lookups[n] <= 1

C4_Witness ==
    /\ pc = "resolved"
    /\ \E n \in Names :
          /\ Cardinality(Dependents(n)) >= 2
          /\ lookups[n] = 1
          /\ PackageMap[1].name # n

\* C5: after a successful add_from_lock_file the memo holds exactly one
\* Component for each distinct record name, and every Dependency of every
\* resolved Component and every Dependency returned by resolve(requirement)
\* references the memo entry of the name it names.
C5_OneObjectPerName ==
    pc = "resolved" =>
        /\ DOMAIN memo = {packages[i].name : i \in 1..Len(packages)}
        /\ Len(heap) = Cardinality(DOMAIN memo)
        /\ \A n \in DOMAIN memo : heap[memo[n]].name = n
        /\ \A c \in 1..Len(heap) : \A i \in 1..Len(AllDependencies(c)) :
              /\ AllDependencies(c)[i][2].requirement \in DOMAIN memo
              /\ AllDependencies(c)[i][2].component
                    = memo[AllDependencies(c)[i][2].requirement]
        /\ last.op = "resolve" => last.target = memo[last.name]

C5_Witness ==
    /\ pc = "resolved"
    /\ last.op = "resolve"
    /\ Cardinality({c \in 1..Len(heap) :
                       \E i \in 1..Len(AllDependencies(c)) :
                          AllDependencies(c)[i][2].component = last.target}) >= 2

\* C6: the error raised for a dependency on a name without record names the
\* missing package and the record that refers to it.
C6_MessageNamesBoth ==
    last.op = "missing" =>
        /\ error = "DependencyTreeError"
        /\ last.name \in Range(message.args)
        /\ last.by \in Range(message.args)

\* C7: a record whose only declared dependency is itself, its metadata found,
\* resolves to a Component without dependencies and with exactly one warning.
C7_SelfOnlyWarnsOnce ==
    \A n \in DOMAIN memo :
        (PackageOf(n).dependencies = <<n>> /\ heap[memo[n]].resolved)
            => /\ AllDependencies(memo[n]) = <<>>
               /\ Cardinality(WarningsAbout(n)) = 1

\* a two component cycle below the project
CycleAB ==
    \E a, b \in 1..Len(heap) :
        /\ a # b
        /\ b \in Succ(a)
        /\ a \in Succ(b)
        /\ a \in ReachedFromProject

\* C8: build on a Project whose components form a cycle A -> B -> A ends
\* without running out of stack.
C8_CycleTerminates == CycleAB => error # "RecursionError"

\* C9: a dependency without component adds no node and no edge and raises
\* nothing, in the node walk and in classification; classification skips a
\* dependency that is absent or has no node in the visited map and paints
\* nothing through it.
C9_AbsentStep ==
    /\ (/\ pc = "nodes"
        /\ Top.idx <= Len(AllDependencies(Top.component))
        /\ AllDependencies(Top.component)[Top.idx][2].component = NoComponent)
       => /\ UNCHANGED <<nodeObj, gnodes, gedges, c2n>>
          /\ error' = "none"
          /\ stack' = Resume(stack)
    /\ (/\ pc = "colorize"
        /\ Top.fn = "paint_all"
        /\ Top.idx <= Len(AllDependencies(Top.component))
        /\ ~PaintGuard(AllDependencies(Top.component)[Top.idx][2]))
       => /\ UNCHANGED <<nodeObj, gnodes, gedges, c2n>>
          /\ error' = "none"
          /\ stack' = Resume(stack)
    /\ (/\ pc = "colorize"
        /\ Top.fn = "colorize_graph"
        /\ Top.idx <= Len(ColorizeWork)
        /\ ~PaintGuard(ColorizeWork[Top.idx][1]))
       => /\ UNCHANGED <<nodeObj, gnodes, gedges, c2n>>
          /\ error' = "none"
          /\ stack' = Resume(stack)

C9_AbsentContributesNothing ==
    /\ [](\A n \in 1..Len(nodeObj) : nodeObj[n].component # NoComponent)
    /\ [][C9_AbsentStep]_vars

C9_Witness ==
    /\ pc = "done"
    /\ \E c \in ReachedFromProject :
          /\ \E i \in 1..Len(AllDependencies(c)) :
                AllDependencies(c)[i][2].component = NoComponent
          /\ \E n \in ComponentNodes : nodeObj[n].component = c /\ Usage(n) = REQUIRED
    /\ \E i \in 1..Len(DevelopmentDependencies) :
          DevelopmentDependencies[i].component = NoComponent

\* C10: the node list never holds two nodes of one component; after build
\* every component reachable from the Project has exactly one node, and a
\* component two components depend on has an edge from both.
C10_OneNodePerComponent ==
    /\ \A i, j \in 1..Len(gnodes) :
          nodeObj[gnodes[i]].component = nodeObj[gnodes[j]].component => i = j
    /\ pc = "done" =>
          /\ \A c \in ReachedFromProject : Cardinality(NodesOf(c)) = 1
          /\ \A a, b \in ReachedFromProject : \A c \in Succ(a) \cap Succ(b) :
                /\ MapGet(c2n, c) \in gedges[MapGet(c2n, a)]
                /\ MapGet(c2n, c) \in gedges[MapGet(c2n, b)]

C10_Witness ==
    /\ pc = "done"
    /\ \E a, b, c \in 1..Len(heap) :
          /\ a # b /\ a # c /\ b # c
          /\ c \in Succ(a) \cap Succ(b)
          /\ {a, b} \subseteq Succ(ProjectRef)
          /\ Cardinality(NodesOf(c)) = 1
          /\ MapGet(c2n, c) \in gedges[MapGet(c2n, a)] \cap gedges[MapGet(c2n, b)]

\* the edges of the graph as pairs of nodes
EdgePairs == UNION {{<<n, m>> : m \in gedges[n]} : n \in DOMAIN gedges}

\* the node that wraps component c
NodeOf(c) == CHOOSE n \in 1..Len(nodeObj) : nodeObj[n].component = c

\* the pairs (node of X, node of Y), X the Project or reachable from it, Y the
\* component of a Dependency of X
DependencyPairs ==
    LET reached == {ProjectRef} \cup Closure(Succ(ProjectRef), Len(heap))
    IN UNION {{<<NodeOf(x), NodeOf(y)>> : y \in Succ(x)} : x \in reached}

\* C11: after build on an acyclic Project the edges are exactly the pairs
\* (node of X, node of Y) with X the Project or reachable from it and Y the
\* non-absent component of a Dependency of X; the Root has an edge to every
\* present dependency of every declared group.
C11_EdgesAreDependencies ==
    pc = "done" =>
        /\ EdgePairs = DependencyPairs
        /\ \A g \in 1..Len(project.dependencies) :
              \A i \in 1..Len(project.dependencies[g].items) :
                 LET c == project.dependencies[g].items[i].component
                 IN c # NoComponent => NodeOf(c) \in gedges[RootRef]

C11_Witness ==
    /\ pc = "done"
    /\ \E a, b \in 1..Len(heap) :
          /\ a # b
          /\ {a, b} \subseteq Succ(ProjectRef)
          /\ b \in Succ(a)
          /\ {<<RootRef, NodeOf(a)>>, <<RootRef, NodeOf(b)>>, <<NodeOf(a), NodeOf(b)>>}
                = EdgePairs
    /\ Len(AllDependencies(ProjectRef)) = 3

EndToEndInput ==
    /\ packages = <<ReferencedComponent("A", "1.0", <<"B">>),
                    ReferencedComponent("B", "1.0", <<"C">>),
                    ReferencedComponent("C", "1.0", <<>>)>>
    /\ manifest = ManifestOf(<<1, 0, 1>>, <<"A", "B">>)

\* the usage of the node of the component named name
UsageOfName(name) ==
    Usage(CHOOSE n \in ComponentNodes : heap[nodeObj[n].component].name = name)

\* the graph of the scenario: Root(Project), A, B and C, A and B REQUIRED
EndToEndGraph ==
    /\ Len(gnodes) = 4
    /\ nodeObj[gnodes[1]].kind = "root"
    /\ {Obj(nodeObj[gnodes[i]].component).name : i \in 1..Len(gnodes)}
          = {"P", "A", "B", "C"}
    /\ UsageOfName("A") = REQUIRED
    /\ UsageOfName("B") = REQUIRED

\* C13 as stated: for the records A -> B -> C and the manifest default: [A],
\* development: [B], the built graph has exactly the nodes Root, A, B, C, and
\* A and B are REQUIRED.
C13_EndToEnd == (EndToEndInput /\ pc = "done") => EndToEndGraph

\* C13 amended: the same, when the metadata of A and of B is found.
C13_EndToEndInstalled ==
    (EndToEndInput /\ pc = "done" /\ answers["A"] = "found" /\ answers["B"] = "found")
        => EndToEndGraph

C13_Witness ==
    /\ EndToEndInput
    /\ pc = "done"
    /\ answers["A"] = "found"
    /\ answers["B"] = "found"
    /\ answers["C"] = "notfound"
    /\ EndToEndGraph
    /\ UsageOfName("C") = REQUIRED

\* the group names the Project declares, and the dependencies of one of them
DeclaredGroups == {project.dependencies[i].group : i \in 1..Len(project.dependencies)}

Declared(g) ==
    project.dependencies[CHOOSE i \in 1..Len(project.dependencies) :
                            project.dependencies[i].group = g].items

\* C14: after build, a component that only the development dependencies of
\* the Project lead to (no default and no optional dependency does) has usage
\* DEVELOPMENT; so have B and C when development: [B] is the only declaration
\* and B depends on C.
C14_DevelopmentOnly ==
    pc = "done" =>
        LET development == ReachedFrom(Declared(DEVELOPMENT_GROUP_NAME))
            others == UNION {ReachedFrom(Declared(g)) :
                                g \in DeclaredGroups \ {DEVELOPMENT_GROUP_NAME}}
        IN \A n \in ComponentNodes :
              nodeObj[n].component \in development \ others => Usage(n) = DEVELOPMENT

C14_Witness ==
    /\ pc = "done"
    /\ \A g \in DeclaredGroups \ {DEVELOPMENT_GROUP_NAME} : Declared(g) = <<>>
    /\ \E b, c \in 1..Len(heap) :
          /\ b # c
          /\ Declared(DEVELOPMENT_GROUP_NAME) = <<Dep(heap[b].name, b)>>
          /\ Succ(b) = {c}
          /\ Usage(NodeOf(b)) = DEVELOPMENT
          /\ Usage(NodeOf(c)) = DEVELOPMENT

\* node n is the root or was passed to add_node
Added(n) == \E i \in 1..Len(gnodes) : gnodes[i] = n

\* C15: add_edge(from, to) raises ValueError whenever from or to is neither
\* the root nor a node passed to add_node before, and then leaves the node
\* list and the whole edge mapping as they were (no empty edge set appears for
\* a known source); with both known, the root as source included, it is
\* accepted and the edge is there.
C15_Step ==
    last'.op = "add_edge" =>
        LET from == last'.node
            to == last'.kind
        IN /\ (~Added(from) \/ ~Added(to)) =>
                 /\ error' = "ValueError"
                 /\ gnodes' = gnodes
                 /\ gedges' = gedges
           /\ (Added(from) /\ Added(to)) =>
                 /\ error' = "none"
                 /\ gnodes' = gnodes
                 /\ to \in gedges'[from]

C15_UnknownNodeRejected == [][C15_Step]_vars

C15_Witness ==
    /\ last.op = "add_edge"
    /\ error = "ValueError"
    /\ last.node # RootRef
    /\ Added(last.node)
    /\ ~Added(last.kind)
    /\ last.node \notin DOMAIN gedges
    /\ gedges[RootRef] = {last.node}

\* C16: under any sequence of add_node and add_edge calls, failed ones
\* included, the Root is the first element of graph.nodes; add_node appends
\* its node, also one that is listed already, and nothing else changes the
\* node list.
C16_Step ==
    /\ last'.op = "add_node" => gnodes' = Append(gnodes, last'.node)
    /\ last'.op # "add_node" => gnodes' = gnodes

C16_RootFirstInOrder ==
    /\ [](Len(gnodes) >= 1 /\ gnodes[1] = RootRef /\ nodeObj[gnodes[1]].kind = "root")
    /\ [][C16_Step]_vars

C16_Witness ==
    /\ gnodes[1] = RootRef
    /\ error = "ValueError"
    /\ \E i, j \in 2..Len(gnodes) : i # j /\ gnodes[i] = gnodes[j]

\* the targets of the edges out of node n
EdgeTargets(n) == IF n \in DOMAIN gedges THEN gedges[n] ELSE {}

\* C20: an accepted add_edge(from, to) makes the targets of from the targets
\* it had together with to and changes no other edge; when the edge is there
\* already, the call changes nothing of the graph.
C20_Step ==
    (last'.op = "add_edge" /\ error' = "none") =>
        LET from == last'.node
            to == last'.kind
        IN /\ DOMAIN gedges' = DOMAIN gedges \cup {from}
           /\ gedges'[from] = EdgeTargets(from) \cup {to}
           /\ \A n \in DOMAIN gedges \ {from} : gedges'[n] = gedges[n]
           /\ to \in EdgeTargets(from) => /\ gedges' = gedges
                                        /\ gnodes' = gnodes
                                        /\ nodeObj' = nodeObj

C20_EdgeSetSemantics == [][C20_Step]_vars

C20_Witness ==
    /\ last.op = "add_edge"
    /\ error = "none"
    /\ last.node # RootRef
    /\ Cardinality(gedges[last.node]) = 2
    /\ last.node \in gedges[last.node]
    /\ gedges[RootRef] # {}

\* C17: resolve(requirement) for a name in the memo returns the Dependency
\* of that requirement and the memoized Component and changes nothing of the
\* builder; for a name not in the memo it raises DependencyTreeError, leaves
\* the memo as it was, and ProjectBuilder.build produces no Project.
C17_Step ==
    last'.op \in {"resolve", "resolve_failed"} =>
        /\ UNCHANGED <<memo, heap, lookups, warnings, answers, packages>>
        /\ last'.name \in DOMAIN memo =>
              /\ last'.op = "resolve"
              /\ error' = "none"
              /\ stack'[Len(stack')].deps
                    = Append(Top.deps, Dep(last'.name, memo[last'.name]))
              /\ heap[memo[last'.name]].name = last'.name
        /\ last'.name \notin DOMAIN memo =>
              /\ last'.op = "resolve_failed"
              /\ error' = "DependencyTreeError"
              /\ pc' = "failed"
              /\ project' = NoProjectInfo

C17_ResolveRequirement ==
    /\ [](pc = "failed" => project = NoProjectInfo)
    /\ [][C17_Step]_vars

C17_Witness ==
    /\ last.op = "resolve_failed"
    /\ error = "DependencyTreeError"
    /\ DOMAIN memo # {}
    /\ project = NoProjectInfo
    /\ manifest[1].items # <<>>
    /\ manifest[1].items[1] \in DOMAIN memo

\* C18: when the metadata of a record is not found, resolution goes on: the
\* record is memoized as a Component with resolved = false, the undefined
\* version, no authors and the files of the record, one warning is emitted,
\* and a run that ends has every record in the memo.
C18_Step ==
    last'.op = "unresolved" =>
        LET name == last'.name
        IN /\ error' = "none"
           /\ pc' = "resolving"
           /\ name \notin DOMAIN memo
           /\ DOMAIN memo' = DOMAIN memo \cup {name}
           /\ \A n \in DOMAIN memo : memo'[n] = memo[n]
           /\ memo'[name] = last'.target
           /\ heap'[memo'[name]].name = name
           /\ heap'[memo'[name]].resolved = FALSE
           /\ heap'[memo'[name]].resolved_version = UNDEFINED_VERSION
           /\ heap'[memo'[name]].authors = <<>>
           /\ heap'[memo'[name]].files = PackageOf(name).files
           /\ heap'[memo'[name]].files # <<>>
           /\ Len(warnings') = Len(warnings) + 1
           /\ warnings'[Len(warnings')].name = name

C18_UnresolvedPlaceholder ==
    /\ [](pc = "resolved" =>
             \A i \in 1..Len(packages) : packages[i].name \in DOMAIN memo)
    /\ [][C18_Step]_vars

C18_Witness ==
    /\ pc = "resolved"
    /\ Len(PackageMap) >= 2
    /\ ~heap[memo[PackageMap[1].name]].resolved
    /\ heap[memo[PackageMap[2].name]].resolved
    /\ heap[memo[PackageMap[2].name]].authors # <<>>
    /\ Cardinality(WarningsAbout(PackageMap[1].name)) = 1
    /\ Len(warnings) = 1

\* C19: two Components of one name compare equal and hash equal whatever
\* their other fields are, and are one key of the visited map of the graph
\* builder, hence one node of the built graph.
C19_IdentityByName ==
    pc = "done" =>
        \A a, b \in ReachedFromProject :
            heap[a].name = heap[b].name =>
                /\ CompEq(a, b)
                /\ CompHash(a) = CompHash(b)
                /\ MapGet(c2n, a) = MapGet(c2n, b)
                /\ Cardinality({i \in 1..Len(gnodes) :
                                   Obj(nodeObj[gnodes[i]].component).name = heap[a].name}) = 1

\* two records of the package map that depend on each other
MutualRecords ==
    \E i, j \in 1..Len(PackageMap) :
        /\ PackageMap[i].name # PackageMap[j].name
        /\ PackageMap[j].name \in Range(PackageMap[i].dependencies)
        /\ PackageMap[i].name \in Range(PackageMap[j].dependencies)

\* C21: add_from_lock_file ends with a memo or with DependencyTreeError for
\* every lock record map, also when two records depend on each other: the
\* resolution of such records does not run out of stack.
C21_ResolutionTerminates == MutualRecords => error # "RecursionError"

\* the records a record declares as dependencies, itself excepted, and the
\* records reachable through such declarations
RecordDeps(n) ==
    LET map == PackageMap
        own == {i \in 1..Len(map) : map[i].name = n}
        names == {map[i].name : i \in 1..Len(map)}
    IN IF own = {} THEN {}
       ELSE {m \in Range(map[CHOOSE i \in own : TRUE].dependencies) : m # n /\ m \in names}

RECURSIVE RecordClosure(_, _)
RecordClosure(S, k) ==
    IF k = 0 THEN S ELSE RecordClosure(S \cup UNION {RecordDeps(m) : m \in S}, k - 1)

RecordReach(n) == RecordClosure(RecordDeps(n), NumComponents)

\* C22: when a record is written to the memo, every record reachable from it
\* through declared non-self dependencies is in the memo already, so the memo
\* is filled leaves first; the metadata of a record is looked up only when
\* all its dependencies are resolved.
C22_Step ==
    \A n \in Names :
        /\ (n \notin DOMAIN memo /\ n \in DOMAIN memo') => RecordReach(n) \subseteq DOMAIN memo
        /\ lookups'[n] > lookups[n] => RecordDeps(n) \subseteq DOMAIN memo

C22_DependenciesFirst ==
    /\ [](\A n \in DOMAIN memo : RecordDeps(n) \subseteq DOMAIN memo)
    /\ [][C22_Step]_vars

C22_Witness ==
    /\ pc = "resolved"
    /\ Len(PackageMap) = 3
    /\ RecordDeps(PackageMap[1].name) = {PackageMap[2].name}
    /\ RecordDeps(PackageMap[2].name) = {PackageMap[3].name}
    /\ memo[PackageMap[3].name] = 1
    /\ memo[PackageMap[2].name] = 2
    /\ memo[PackageMap[1].name] = 3

\* C23: a component node is created with the group name of the dependency
\* through which the walk first reaches its component, and the group of a
\* node never changes: a later visit of the component, through whatever
\* group, creates no node and changes none; it only leads to an edge.
C23_Step ==
    /\ \A n \in 1..Len(nodeObj) : nodeObj'[n].group = nodeObj[n].group
    /\ last'.op = "visit" =>
          /\ NodesOf(last'.target) = {}
          /\ nodeObj' = Append(nodeObj,
                               [kind |-> "component", component |-> last'.target,
                                group |-> AllDependencies(Top.component)[Top.idx][1],
                                paint |-> UNUSED])
    /\ last'.op = "revisit" =>
          /\ NodesOf(last'.target) # {}
          /\ UNCHANGED <<nodeObj, gnodes, gedges>>

C23_GroupOfFirstVisit == [][C23_Step]_vars

C23_Witness ==
    /\ pc = "done"
    /\ \E a, c \in 1..Len(heap) :
          /\ a # c
          /\ Declared(DEFAULT_GROUP_NAME) = <<Dep(heap[a].name, a)>>
          /\ Declared(DEVELOPMENT_GROUP_NAME) = <<Dep(heap[c].name, c)>>
          /\ c \in Succ(a)
          /\ nodeObj[NodeOf(c)].group = DEFAULT_GROUP_NAME
          /\ NodeOf(c) \in gedges[RootRef]
          /\ NodeOf(c) \in gedges[NodeOf(a)]
    /\ \E n \in ComponentNodes : nodeObj[n].group = EXTRA_GROUP_NAME

\* the declared dependencies of record n without the references to n
DeclaredWithoutSelf(n) ==
    LET NotSelf(d) == d # n
    IN SelectSeq(PackageOf(n).dependencies, NotSelf)

\* C24: a record that lists itself together with other dependencies, its
\* metadata found, resolves to a Component whose only group is default and
\* whose dependencies are the declared ones without the self references, in
\* declared order, each with the memoized Component of its name; no
\* circular-dependency warning is emitted for the record.
C24_OnlySelfSkipped ==
    \A n \in DOMAIN memo :
        (/\ heap[memo[n]].resolved
         /\ n \in Range(PackageOf(n).dependencies)
         /\ DeclaredWithoutSelf(n) # <<>>)
            => /\ Len(heap[memo[n]].dependencies) = 1
               /\ heap[memo[n]].dependencies[1].group = DEFAULT_GROUP_NAME
               /\ Len(heap[memo[n]].dependencies[1].items) = Len(DeclaredWithoutSelf(n))
               /\ Range(DeclaredWithoutSelf(n)) \subseteq DOMAIN memo
               /\ heap[memo[n]].dependencies[1].items
                     = [i \in 1..Len(DeclaredWithoutSelf(n)) |->
                           Dep(DeclaredWithoutSelf(n)[i], memo[DeclaredWithoutSelf(n)[i]])]
               /\ \A i \in 1..Len(DeclaredWithoutSelf(n)) :
                     heap[memo[DeclaredWithoutSelf(n)[i]]].name = DeclaredWithoutSelf(n)[i]
               /\ ~\E i \in 1..Len(warnings) :
                      warnings[i].text = "circular" /\ warnings[i].name = n

C24_Witness ==
    /\ pc = "resolved"
    /\ PackageOf(NameSeq[1]).dependencies = <<NameSeq[3], NameSeq[1], NameSeq[2]>>
    /\ heap[memo[NameSeq[1]]].resolved
    /\ heap[memo[NameSeq[1]]].dependencies[1].items
          = <<Dep(NameSeq[3], memo[NameSeq[3]]), Dep(NameSeq[2], memo[NameSeq[2]])>>
    /\ ~heap[memo[NameSeq[2]]].resolved
    /\ warnings = <<[text |-> "not installed", name |-> NameSeq[2]]>>

\* C25: a record whose version string is empty, its metadata found, is
\* resolved without failure: it is memoized as a Component with the
\* undefined version, and the run is not aborted by an error of the version
\* parser.
C25_EmptyVersionResolves ==
    \A i \in 1..Len(PackageMap) :
        (PackageMap[i].version = "" /\ answers[PackageMap[i].name] = "found")
            => /\ error # "InvalidVersion"
               /\ PackageMap[i].name \in DOMAIN memo
               /\ heap[memo[PackageMap[i].name]].resolved_version = UNDEFINED_VERSION

\* C26: after build no component node is UNUSED: the component of every
\* node is reachable from a declared dependency of the Project and its usage
\* is DEVELOPMENT, OPTIONAL or REQUIRED; a component that no declaration
\* reaches has no node.
C26_NoNodeUnused ==
    pc = "done" =>
        /\ \A n \in ComponentNodes :
              /\ Added(n)
              /\ nodeObj[n].component \in ReachedFromProject
              /\ Usage(n) \in {DEVELOPMENT, OPTIONAL, REQUIRED}
        /\ \A c \in (1..Len(heap)) \ ReachedFromProject : NodesOf(c) = {}

C26_Witness ==
    /\ pc = "done"
    /\ \E c \in (1..Len(heap)) \ ReachedFromProject :
          /\ Succ(c) # {}
          /\ NodesOf(c) = {}
    /\ \E n, m \in ComponentNodes :
          /\ Usage(n) = OPTIONAL
          /\ Usage(m) = DEVELOPMENT
          /\ {n, m} \subseteq gedges[RootRef]

\* C27: the final usage of every node is the same for every order of the
\* three classification passes and for the dependencies of every group in
\* declared or in reverse order: each such classification of the walked
\* nodes gives what build gives.
C27_PassOrderIrrelevant ==
    pc = "done" =>
        \A perm \in Permutations(1..Len(ColorizePasses)), rev \in BOOLEAN :
            ColorizeIn(perm, rev) = nodeObj

C27_Witness ==
    /\ pc = "done"
    /\ \E n, m \in ComponentNodes :
          /\ PassKinds(nodeObj[n].component) = {DEVELOPMENT, OPTIONAL, REQUIRED}
          /\ PassKinds(nodeObj[m].component) = {DEVELOPMENT, OPTIONAL}
          /\ Usage(n) = REQUIRED
          /\ Usage(m) = OPTIONAL
          /\ ColorizeIn(<<3, 1, 2>>, TRUE)[n].paint = REQUIRED
          /\ ColorizeIn(<<3, 2, 1>>, FALSE)[m].paint = OPTIONAL

\* C28: an unresolved Component has no dependencies, whatever its record
\* declares; in the built graph its node has no outgoing edge, and a
\* dependency its record declares has a node only when the Project declares
\* it or a resolved component that has a node depends on it.
C28_UnresolvedHasNoDependencies ==
    /\ \A c \in 1..Len(heap) : ~heap[c].resolved => AllDependencies(c) = <<>>
    /\ pc = "done" =>
          \A n \in DOMAIN memo :
              ~heap[memo[n]].resolved =>
                  /\ \A i \in NodesOf(memo[n]) : EdgeTargets(gnodes[i]) = {}
                  /\ \A d \in RecordDeps(n) :
                        NodesOf(memo[d]) # {} =>
                            \E x \in {ProjectRef} \cup {c \in 1..Len(heap) :
                                                          heap[c].resolved /\ NodesOf(c) # {}} :
                                memo[d] \in Succ(x)

C28_Witness ==
    /\ pc = "done"
    /\ \E n \in DOMAIN memo :
          /\ ~heap[memo[n]].resolved
          /\ RecordDeps(n) # {}
          /\ NodesOf(memo[n]) # {}
          /\ Usage(NodeOf(memo[n])) = REQUIRED
          /\ \A d \in RecordDeps(n) : heap[memo[d]].resolved /\ NodesOf(memo[d]) = {}
    /\ Len(gnodes) = 2

\* the records whose resolution is under way
InProgress == {stack[i].component : i \in {j \in 1..Len(stack) : stack[j].fn = "resolve"}}

\* C29: in every state of a builder, through any sequence of calls of
\* add_from_lock_file, returned or aborted, the memo is dependency-closed:
\* every memoized Component is the entry of its own name and each of its
\* Dependencies references the memo entry of the name it names. A call that
\* aborts with DependencyTreeError leaves the memo as it was, without the
\* aborted record and the records waiting on it.
C29_Step ==
    (pc = "resolving" /\ error' = "DependencyTreeError") =>
        /\ memo' = memo
        /\ InProgress # {}
        /\ InProgress \cap DOMAIN memo' = {}

C29_MemoClosed ==
    /\ [](\A n \in DOMAIN memo :
             /\ heap[memo[n]].name = n
             /\ \A i \in 1..Len(AllDependencies(memo[n])) :
                   /\ AllDependencies(memo[n])[i][2].requirement \in DOMAIN memo
                   /\ AllDependencies(memo[n])[i][2].component
                         = memo[AllDependencies(memo[n])[i][2].requirement])
    /\ [][C29_Step]_vars

C29_Witness ==
    /\ pc = "failed"
    /\ error = "DependencyTreeError"
    /\ last.op = "missing"
    /\ last.name \in DOMAIN memo
    /\ last.by \notin DOMAIN memo
    /\ \E x \in Names \ {last.by, last.name} :
          /\ x \notin DOMAIN memo
          /\ RecordDeps(x) = {last.by}

\* the nodes reachable from the nodes S along at most k edges
RECURSIVE NodeClosure(_, _)
NodeClosure(S, k) ==
    IF k = 0 THEN S ELSE NodeClosure(S \cup UNION {EdgeTargets(n) : n \in S}, k - 1)

\* C30: in a graph built from what the resolver and the project assembler
\* return, add_edge never raises, both ends of every edge are in the node
\* list, no edge goes from a node to itself, and after build every node is
\* reachable from the Root along edges.
C30_WellFormed ==
    /\ error # "ValueError"
    /\ \A n \in DOMAIN gedges :
          /\ Added(n)
          /\ \A m \in gedges[n] : Added(m) /\ m # n
    /\ pc = "done" =>
          \A i \in 1..Len(gnodes) : gnodes[i] \in NodeClosure({RootRef}, Len(gnodes))

C30_Witness ==
    /\ pc = "done"
    /\ Len(gnodes) = 4
    /\ Cardinality(gedges[RootRef]) = 1
    /\ Cardinality(EdgePairs) = 3
    /\ \E n \in DOMAIN memo :
          /\ ~heap[memo[n]].resolved
          /\ NodesOf(memo[n]) # {}

====
